---- MODULE Spec2Model ----
(***************************************************************************)
(* bg_helper: call_func (the result recorder) and SimpleBackgroundTask     *)
(* (the background launcher), src/bg_helper/__init__.py.                   *)
(*                                                                         *)
(* The main thread performs up to MaxOps operations, one after the other:  *)
(* a direct call_func(...) or a SimpleBackgroundTask(...) construction.    *)
(* Every construction starts a daemon thread that runs call_func.  The     *)
(* threads share the standard output, the logger and the log file.         *)
(***************************************************************************)
EXTENDS Integers, Sequences, FiniteSets, TLC

\* ------------------------------------------------------------------ bounds
MaxOps == 2
MaxClock == 1

Ops == 1..MaxOps
MainThread == 0

\* --------------------------------------------------------- values and text
LOGFILE == "log--bg-helper.log"
DefaultLogger == "bg_helper"
PlainLogger == "plain"
Loggers == {DefaultLogger, PlainLogger}
HostName == "host.example"
Separator == "======================================================================"
NoneValue == <<"None">>
EmptyDict == [x \in {} |-> 0]

\* The handlers attached to a logger; a file handler carries baseFilename.
\* The module logger has file_handler and console_handler; PlainLogger is a
\* logger object of the caller's, with no file handler.
Handlers(lg) ==
    IF lg = DefaultLogger
    THEN << [kind |-> "FileHandler", baseFilename |-> LOGFILE],
            [kind |-> "StreamHandler"] >>
    ELSE << [kind |-> "StreamHandler"] >>

HasBaseFilename(h) == "baseFilename" \in DOMAIN h

get_logger_filenames(lg) ==
    LET hs == SelectSeq(Handlers(lg), HasBaseFilename)
    IN  [n \in 1..Len(hs) |-> hs[n].baseFilename]

\* _logfile of call_func: the first filename, None on IndexError.
LogfileOf(lg) ==
    LET names == get_logger_filenames(lg)
    IN  IF Len(names) >= 1 THEN names[1] ELSE "None"

\* Units of work.  A function value is [kind, name, bound]; a string is not
\* callable.
Fn(name) == [kind |-> "function", name |-> name, bound |-> ""]
Str(s) == [kind |-> "str", name |-> "", bound |-> s]
Partial(name, s) == [kind |-> "partial", name |-> name, bound |-> s]

callable(f) == f.kind # "str"

\* getattr(func, '__name__', repr(type(func)))
FuncName(f) ==
    IF f.kind = "function" THEN f.name
    ELSE IF f.kind = "partial" THEN "<class 'functools.partial'>"
    ELSE "<class 'str'>"

\* getattr(func, '__doc__', '')
FuncDoc(f) ==
    IF f.kind = "function"
    THEN (IF f.name = "run_or_die" THEN "Run a shell command or exit the system"
          ELSE IF f.name = "run" THEN "Run a shell command"
          ELSE "None")
    ELSE IF f.kind = "partial"
    THEN "partial(func, *args, **keywords) - new function with partial application\n"
         \o "    of the given arguments and keywords.\n"
    ELSE "str(object='') -> str\n"
         \o "str(bytes_or_buffer[, encoding[, errors]]) -> str\n\n"
         \o "Create a new string object from the given object. If encoding or\n"
         \o "errors is specified, then the object must expose a data buffer\n"
         \o "that will be decoded using the given encoding and error handler.\n"
         \o "Otherwise, returns the result of object.__str__() (if defined)\n"
         \o "or repr(object).\n"
         \o "encoding defaults to sys.getdefaultencoding().\n"
         \o "errors defaults to 'strict'."

\* getattr(func, '__module__', '')
FuncModule(f) ==
    IF f.kind = "function"
    THEN (IF f.name \in {"run", "run_or_die"} THEN "bg_helper" ELSE "__main__")
    ELSE IF f.kind = "partial" THEN "functools"
    ELSE ""

\* The texts of the model that hold an apostrophe (and no double quote).
WithApostrophe ==
    {"'str' object is not callable"}
    \cup {name \o "() missing 1 required positional argument: 'cmd'" :
             name \in {"run", "run_or_die"}}
    \cup {name \o "() got an unexpected keyword argument '" \o key \o "'" :
             name \in {"run", "run_or_die"}, key \in {"k", "verbose", "logger"}}

\* repr of a str: in single quotes, in double quotes when the text holds an
\* apostrophe.
ReprStr(s) == IF s \in WithApostrophe THEN "\"" \o s \o "\"" ELSE "'" \o s \o "'"

RECURSIVE ReprItems(_)
ReprItems(args) ==
    IF Len(args) = 0 THEN ""
    ELSE IF Len(args) = 1 THEN ReprStr(args[1])
    ELSE ReprStr(args[1]) \o ", " \o ReprItems(Tail(args))

\* repr(args) of a tuple of strings.
ReprArgs(args) ==
    IF Len(args) = 0 THEN "()"
    ELSE IF Len(args) = 1 THEN "(" \o ReprStr(args[1]) \o ",)"
    ELSE "(" \o ReprItems(args) \o ")"

ReprKwValue(key, v) ==
    IF key = "k" THEN ToString(v)
    ELSE IF key = "verbose" THEN (IF v THEN "True" ELSE "False")
    ELSE "<Logger " \o v \o ">"

\* The order in which the model's callers write their keywords.
KeyOrder == <<"k", "verbose", "logger">>
Position(key) == CHOOSE n \in 1..Len(KeyOrder) : KeyOrder[n] = key

RECURSIVE ReprPairs(_, _)
ReprPairs(kw, keys) ==
    IF Len(keys) = 0 THEN ""
    ELSE LET rest == ReprPairs(kw, Tail(keys))
             key == Head(keys)
         IN  IF key \notin DOMAIN kw THEN rest
             ELSE ReprStr(key) \o ": " \o ReprKwValue(key, kw[key])
                  \o (IF rest = "" THEN "" ELSE ", " \o rest)

\* repr(kwargs) of a dict.
ReprKwargs(kw) == "{" \o ReprPairs(kw, KeyOrder) \o "}"

\* kwargs.pop(key, default): the value, and the dict without the key.
PopValue(kw, key, default) == IF key \in DOMAIN kw THEN kw[key] ELSE default
\* kwargs.get in place of kwargs.pop: the key stays in the dict.
GetKeeps(kw, key) == kw
PopRest(kw, key) == [x \in (DOMAIN kw) \ {key} |-> kw[x]]

\* Values an exception is built with: <<"int", n>> or <<"str", s>>.
IntArg(n) == <<"int", n>>
StrArg(s) == <<"str", s>>
ReprValue(v) == IF v[1] = "int" THEN ToString(v[2]) ELSE ReprStr(v[2])
StrValue(v) == IF v[1] = "int" THEN ToString(v[2]) ELSE v[2]

RECURSIVE ReprValues(_)
ReprValues(vs) ==
    IF Len(vs) = 0 THEN ""
    ELSE IF Len(vs) = 1 THEN ReprValue(vs[1])
    ELSE ReprValue(vs[1]) \o ", " \o ReprValues(Tail(vs))

\* Exceptions: the type's name, the args tuple, the filename attribute of an
\* OSError ("" when it has none), and tb, the lines of the traceback below
\* the frame of call_func.
ExcAt(type, args, filename, tb) ==
    [type |-> type, args |-> args, filename |-> filename, tb |-> tb]
\* An exception raised by line 70 itself.
Exc(type, args) == ExcAt(type, args, "", "")
NoExc == Exc("", << >>)

OSErrors == {"OSError", "FileNotFoundError", "PermissionError"}

\* repr(etype)
ReprType(e) == "<class '" \o e.type \o "'>"
\* repr(evalue)
ReprExc(e) == e.type \o "(" \o ReprValues(e.args) \o ")"
\* str(evalue)
StrExc(e) ==
    IF Len(e.args) = 0 THEN ""
    ELSE IF Len(e.args) = 1 THEN StrValue(e.args[1])
    ELSE IF e.type \in OSErrors /\ Len(e.args) = 2
    THEN "[Errno " \o StrValue(e.args[1]) \o "] " \o StrValue(e.args[2])
         \o (IF e.filename = "" THEN "" ELSE ": " \o ReprStr(e.filename))
    ELSE "(" \o ReprValues(e.args) \o ")"

\* Where the module's file is, as tracebacks name it.
ModuleFile == "bg_helper/__init__.py"
FrameLine(file, line, name) ==
    "  File \"" \o file \o "\", line " \o ToString(line) \o ", in " \o name \o "\n"

\* traceback.format_exc() inside the except branch of call_func, as Python
\* 3.11 prints it: the frame of line 70, the frames below it, and the
\* exception's type and str.
FormatExc(e) ==
    "Traceback (most recent call last):\n"
    \o FrameLine(ModuleFile, 70, "call_func")
    \o "    value = func(*args, **kwargs)\n"
    \o "            ^^^^^^^^^^^^^^^^^^^^^\n"
    \o e.tb
    \o e.type \o (IF StrExc(e) = "" THEN "" ELSE ": " \o StrExc(e)) \o "\n"

\* Two decimal digits.
Pad2(n) == IF n < 10 THEN "0" \o ToString(n) ELSE ToString(n)

\* time.localtime: the model's zone is UTC.
UtcOffset == 0

DayNames == <<"Sun", "Mon", "Tue", "Wed", "Thu", "Fri", "Sat">>

\* The calendar date of a day number (days since 1970-01-01), as
\* [year, month, day].
CivilFromDays(days) ==
    LET z == days + 719468
        era == z \div 146097
        doe == z - era * 146097
        yoe == (doe - doe \div 1460 + doe \div 36524 - doe \div 146096) \div 365
        doy == doe - (365 * yoe + yoe \div 4 - yoe \div 100)
        mp == (5 * doy + 2) \div 153
        m == IF mp < 10 THEN mp + 3 ELSE mp - 9
    IN  [year |-> yoe + era * 400 + (IF m <= 2 THEN 1 ELSE 0),
         month |-> m,
         day |-> doy - (153 * mp + 2) \div 5 + 1]

\* time.strftime('%Y_%m%d-%a-%H%M%S', time.localtime(epoch))
TimeString(epoch) ==
    LET t == epoch + UtcOffset
        days == t \div 86400
        secs == t % 86400
        date == CivilFromDays(days)
    IN  ToString(date.year) \o "_" \o Pad2(date.month) \o Pad2(date.day)
        \o "-" \o DayNames[((days + 4) % 7) + 1]
        \o "-" \o Pad2(secs \div 3600) \o Pad2((secs % 3600) \div 60) \o Pad2(secs % 60)

\* ------------------------------------------------------------ units of work
\* Exit codes a shell command can end with (subprocess.call's return value).
ExitCodes == {0, 3}

Returns(v) == [kind |-> "return", value |-> v, exc |-> NoExc]
Raises(e) == [kind |-> "raise", value |-> NoneValue, exc |-> e]

\* subprocess.check_call in place of call: a non-zero exit code is raised as
\* CalledProcessError.
check_call(cmd) ==
    { IF rc # 0
      THEN Raises(Exc("CalledProcessError", <<IntArg(rc), StrArg(cmd)>>))
      ELSE Returns(<<"int", rc>>) : rc \in ExitCodes }

\* run(cmd): call(cmd, shell=True) returns the command's exit code, whatever
\* it is; it does not raise on a non-zero code.
run(cmd) == {Returns(<<"int", rc>>) : rc \in ExitCodes}

\* run_or_die(cmd): sys.exit(ret_code) when run gave a non-zero code; what
\* run raises goes through.
run_or_die(cmd) ==
    { IF o.kind = "raise" THEN o
      ELSE IF o.value[2] # 0
      THEN Raises(ExcAt("SystemExit", <<IntArg(o.value[2])>>, "",
                        FrameLine(ModuleFile, 36, "run_or_die")
                        \o "    sys.exit(ret_code)\n"))
      ELSE Returns(NoneValue) : o \in run(cmd) }

\* The file of the caller's own functions.
CallerFile == "caller.py"

\* The TypeError message of a call of name(cmd) with n positional arguments
\* and the keywords kw that does not fit the one parameter cmd.
ArityMessage(name, n, kw) ==
    IF DOMAIN kw # {}
    THEN name \o "() got an unexpected keyword argument '"
         \o (CHOOSE x \in DOMAIN kw : \A y \in DOMAIN kw : Position(x) <= Position(y)) \o "'"
    ELSE IF n = 0
    THEN name \o "() missing 1 required positional argument: 'cmd'"
    ELSE name \o "() takes 1 positional argument but " \o ToString(n)
         \o (IF n = 1 THEN " was given" ELSE " were given")

\* What func(*args, **kwargs) can do.  echo and boom are a caller's own
\* functions: echo returns what it was called with, boom raises.
Outcomes(f, args, kw) ==
    IF ~callable(f)
    THEN {Raises(Exc("TypeError", <<StrArg("'str' object is not callable")>>))}
    ELSE IF f.kind = "partial"
    THEN (IF Len(args) = 0 /\ DOMAIN kw = {}
          THEN run(f.bound)
          ELSE {Raises(Exc("TypeError", <<StrArg(ArityMessage("run", 1 + Len(args), kw))>>))})
    ELSE IF f.name = "run"
    THEN (IF Len(args) = 1 /\ DOMAIN kw = {}
          THEN run(args[1])
          ELSE {Raises(Exc("TypeError", <<StrArg(ArityMessage("run", Len(args), kw))>>))})
    ELSE IF f.name = "run_or_die"
    THEN (IF Len(args) = 1 /\ DOMAIN kw = {}
          THEN run_or_die(args[1])
          ELSE {Raises(Exc("TypeError", <<StrArg(ArityMessage("run_or_die", Len(args), kw))>>))})
    ELSE IF f.name = "boom"
    THEN {Raises(ExcAt("ValueError", <<StrArg("x")>>, "",
                       FrameLine(CallerFile, 1, "boom") \o "    raise ValueError('x')\n"))}
    ELSE {Returns(<<"tuple", args, kw>>)}

\* "except Exception:" lets exit requests and interrupts through.
CatchesExceptionOnly(etype) == etype \notin {"SystemExit", "KeyboardInterrupt", "GeneratorExit"}

\* The bare "except:" of call_func catches every exception type.
Catches(etype) == TRUE

\* ------------------------------------------------------------------ inputs
\* The calls the main thread makes: call_func(func, *args, **kwargs) or
\* SimpleBackgroundTask(func, *args, **kwargs) with one of these shapes.
Kw(keys) ==
    [x \in keys |-> IF x = "k" THEN 1 ELSE IF x = "verbose" THEN FALSE ELSE PlainLogger]
Shape(f, a, k) == [func |-> f, args |-> a, kwargs |-> k]
CallShapes ==
    { Shape(Fn("echo"), << >>, Kw({})),
      Shape(Fn("echo"), <<"a">>, Kw({"k", "verbose", "logger"})),
      Shape(Fn("boom"), << >>, Kw({})),
      Shape(Fn("boom"), <<"a">>, Kw({"k", "verbose"})),
      Shape(Fn("boom"), <<"a", "b">>, Kw({"logger"})),
      Shape(Fn("run_or_die"), <<"exit 3">>, Kw({"verbose"})),
      Shape(Fn("run"), <<"exit 3">>, Kw({})),
      Shape(Str("echo hello"), <<"a">>, Kw({"k", "verbose"})) }
    \cup { Shape(Fn("echo"), <<"a">>, Kw(keys)) : keys \in SUBSET {"k", "verbose", "logger"} }

\* ------------------------------------------------------------------- state
VARIABLES
    mpc,         \* main thread: "idle", "call", "ctor", "done", "crashed"
    cur,         \* number of operations the main thread has begun
    op,          \* op[i]: what the caller passed to operation i
    obj,         \* obj[i]: the SimpleBackgroundTask instance (_func, _args, _kwargs)
    th,          \* th[i]: the thread the instance started
    cf,          \* cf[i]: the call_func invocation of operation i
    ret,         \* what the main thread's last direct call_func returned
    mexc,        \* the exception that reached the main thread, if any
    stdout,      \* what print wrote, in order
    loggerCalls, \* the messages handed to _logger.error, in order
    logfile,     \* the content of LOGFILE, in order
    clock,       \* time.time(), as last read
    exited       \* the process has ended

vars == <<mpc, cur, op, obj, th, cf, ret, mexc, stdout, loggerCalls, logfile,
          clock, exited>>

NoOutcome == [kind |-> "none", value |-> NoneValue, exc |-> NoExc]
NoOp == [mode |-> "none", func |-> Str(""), args |-> << >>, kwargs |-> EmptyDict, of |-> 0]
NoObj == [_func |-> Str(""), _args |-> << >>, _kwargs |-> EmptyDict]
NoThread == [state |-> "none", daemon |-> FALSE, starts |-> 0]
NoInfo == EmptyDict
NoCall == [func |-> Str(""), args |-> << >>, kwargs |-> EmptyDict]
NoFrame == [pc |-> "none", thread |-> MainThread, logger |-> "", verbose |-> FALSE,
            logfile |-> "None", info |-> NoInfo, exc |-> NoExc, epoch |-> 0,
            ncalls |-> 0, called |-> NoCall, ranIn |-> MainThread, out |-> NoOutcome]

\* What is left of an invocation once call_func has been left: the local
\* variables are gone; how it went is remembered.
Ended(frame, pc) ==
    [NoFrame EXCEPT !.pc = pc, !.thread = frame.thread, !.ncalls = frame.ncalls,
                    !.ranIn = frame.ranIn,
                    !.out = [NoOutcome EXCEPT !.kind = frame.out.kind]]
\* The caller's arguments go with it.
Forget(o) == [NoOp EXCEPT !.mode = o.mode, !.of = o.of]

Init ==
    /\ mpc = "idle"
    /\ cur = 0
    /\ op = [i \in Ops |-> NoOp]
    /\ obj = [i \in Ops |-> NoObj]
    /\ th = [i \in Ops |-> NoThread]
    /\ cf = [i \in Ops |-> NoFrame]
    /\ ret = NoInfo
    /\ mexc = NoExc
    /\ stdout = << >>
    /\ loggerCalls = << >>
    /\ logfile = << >>
    /\ clock = 0
    /\ exited = FALSE

\* ----------------------------------------------------- the main thread
\* dict.update
Update(d, new) == new @@ d

\* thread.run() in place of thread.start(): the target runs in the caller.
StartedInCaller(i) == MainThread

\* The thread that thread.start() runs the target in: the new thread of
\* instance i, not the constructing thread.
StartedIn(i) == i

\* A thread left non-daemon.
DaemonOff == FALSE

\* thread.daemon = True
DaemonFlag == TRUE

\* A resolution that wraps the string and keeps the arguments given with it.
ResolveKeepArgs(f, a, k) ==
    [_func |-> IF callable(f) THEN f ELSE Partial("run", f.bound), _args |-> a, _kwargs |-> k]

\* SimpleBackgroundTask.__init__, the resolution of func: a non-callable
\* becomes partial(run, func) and the arguments are dropped.
Resolve(f, a, k) ==
    IF ~callable(f)
    THEN [_func |-> Partial("run", f.bound), _args |-> << >>, _kwargs |-> EmptyDict]
    ELSE [_func |-> f, _args |-> a, _kwargs |-> k]

\* The instances the caller holds when it has begun the operations ops: the
\* one it constructed last, as long as all it did since is call its run().
Held(ops, n) ==
    {j \in 1..n : ops[j].mode = "launch" /\ \A k \in (j + 1)..n : ops[k].mode = "rerun"}

\* The instances the caller holds now: none once the main program has ended.
Holds == IF mpc \in {"done", "crashed"} THEN {} ELSE Held(op, cur)

\* An instance exists for as long as something refers to it: the caller, or
\* its thread, whose target is the bound method self.run, until run returns
\* or is left by an exception.
Collect(objs, frames, held) ==
    [j \in Ops |-> IF \/ j \in held
                      \/ /\ frames[j].thread # MainThread
                         /\ frames[j].pc \notin {"none", "done", "dead"}
                   THEN objs[j] ELSE NoObj]

\* The main thread calls call_func(f, *a, **k) itself.
StartDirect(i, f, a, k) ==
    /\ mpc = "idle" /\ ~exited
    /\ cur < MaxOps /\ i = cur + 1
    /\ cur' = i
    /\ op' = [op EXCEPT ![i] = [mode |-> "direct", func |-> f, args |-> a, kwargs |-> k,
                                of |-> 0]]
    /\ cf' = [cf EXCEPT ![i] = [NoFrame EXCEPT !.pc = "call", !.thread = MainThread]]
    /\ obj' = Collect(obj, cf', Held(op', i))
    /\ mpc' = "call"
    /\ UNCHANGED <<th, ret, mexc, stdout, loggerCalls, logfile, clock, exited>>

\* The main thread evaluates SimpleBackgroundTask(f, *a, **k) up to and
\* including thread.start().
Construct(i, f, a, k) ==
    /\ mpc = "idle" /\ ~exited
    /\ cur < MaxOps /\ i = cur + 1
    /\ cur' = i
    /\ op' = [op EXCEPT ![i] = [mode |-> "launch", func |-> f, args |-> a, kwargs |-> k,
                                of |-> i]]
    /\ th' = [th EXCEPT ![i] = [state |-> "running", daemon |-> DaemonFlag,
                                starts |-> th[i].starts + 1]]
    /\ cf' = [cf EXCEPT ![i] = [NoFrame EXCEPT !.pc = "call", !.thread = StartedIn(i)]]
    /\ obj' = Collect([obj EXCEPT ![i] = Resolve(f, a, k)], cf', Held(op', i))
    /\ mpc' = "ctor"
    /\ UNCHANGED <<ret, mexc, stdout, loggerCalls, logfile, clock, exited>>

\* __init__ returns: nothing to wait for once start() has returned, unless the
\* target runs in the constructing thread itself.
CtorReturn ==
    /\ mpc = "ctor" /\ ~exited
    /\ cf[cur].thread = MainThread => cf[cur].pc = "done"
    /\ mpc' = "idle"
    /\ UNCHANGED <<cur, op, obj, th, cf, ret, mexc, stdout, loggerCalls, logfile,
                   clock, exited>>

\* The main thread calls the run() method of the instance j it holds:
\* call_func runs in the main thread, and no thread is started.
CallRun(i, j) ==
    /\ mpc = "idle" /\ ~exited
    /\ cur < MaxOps /\ i = cur + 1
    /\ j \in Holds
    /\ cur' = i
    /\ op' = [op EXCEPT ![i] = [NoOp EXCEPT !.mode = "rerun", !.of = j]]
    /\ cf' = [cf EXCEPT ![i] = [NoFrame EXCEPT !.pc = "call", !.thread = MainThread]]
    /\ mpc' = "call"
    /\ UNCHANGED <<obj, th, ret, mexc, stdout, loggerCalls, logfile, clock, exited>>

\* The main program ends.
MainFinish ==
    /\ mpc = "idle" /\ ~exited
    /\ mpc' = "done"
    /\ obj' = Collect(obj, cf, {})
    /\ UNCHANGED <<cur, op, th, cf, ret, mexc, stdout, loggerCalls, logfile,
                   clock, exited>>

\* Interpreter shutdown: non-daemon threads are joined first, daemon threads
\* are abandoned where they are.
ProcessExit ==
    /\ mpc \in {"done", "crashed"} /\ ~exited
    /\ \A i \in Ops : th[i].state = "running" => th[i].daemon
    /\ exited' = TRUE
    /\ th' = [i \in Ops |-> IF th[i].state = "running"
                            THEN [th[i] EXCEPT !.state = "killed"] ELSE th[i]]
    /\ UNCHANGED <<mpc, cur, op, obj, cf, ret, mexc, stdout, loggerCalls, logfile, clock>>

\* ------------------------------------------------------------- call_func
\* The thread of invocation i can take a step: the main thread while it is
\* inside the call it made, a spawned thread while it is alive.
Runnable(i) ==
    /\ ~exited
    /\ cf[i].thread = MainThread => mpc \in {"call", "ctor"}
    /\ cf[i].thread # MainThread => th[i].state = "running"

\* What call_func is called with: by the caller directly, or by
\* SimpleBackgroundTask.run from the instance's fields.
CallArgs(i) ==
    IF op[i].mode = "direct"
    THEN [func |-> op[i].func, args |-> op[i].args, kwargs |-> op[i].kwargs]
    ELSE LET self == obj[op[i].of]
         IN  [func |-> self._func, args |-> self._args, kwargs |-> self._kwargs]

\* Whether a call of _logger.error can raise.  The module logger's handlers
\* are open and swallow their own errors; a caller's logger is the caller's
\* code, and may raise.
ErrorCallFails(lg) == IF lg = DefaultLogger THEN {FALSE} ELSE BOOLEAN

\* 'func={} args={} kwargs={}'.format(...)
ErrorMessage(info) ==
    "func=" \o info.func_name \o " args=" \o info.args \o " kwargs=" \o info.kwargs

\* %(asctime)s of a record created at t: '%Y-%m-%d %H:%M:%S' and the
\* milliseconds.
AscTime(t) ==
    LET u == t + UtcOffset
        secs == u % 86400
        date == CivilFromDays(u \div 86400)
    IN  ToString(date.year) \o "-" \o Pad2(date.month) \o "-" \o Pad2(date.day)
        \o " " \o Pad2(secs \div 3600) \o ":" \o Pad2((secs % 3600) \div 60)
        \o ":" \o Pad2(secs % 60) \o ",000"

\* file_handler's formatter:
\* '%(asctime)s - %(levelname)s - %(funcName)s: %(message)s'
FormatRecord(created, msg) == AscTime(created) \o " - ERROR - call_func: " \o msg

\* The fields the except branch adds.
ErrorFields(f, e, epoch) ==
    [status |-> "error",
     traceback_string |-> FormatExc(e),
     error_type |-> ReprType(e),
     error_value |-> ReprExc(e),
     func_doc |-> FuncDoc(f),
     func_module |-> FuncModule(f),
     fqdn |-> HostName,
     time_epoch |-> epoch,
     time_string |-> TimeString(epoch)]

\* A try branch that stamps the time as the except branch does.
OkFieldsStamped(v) ==
    [status |-> "ok", value |-> v, time_epoch |-> clock, time_string |-> TimeString(clock)]

\* The fields the try branch adds.
OkFields(v) == [status |-> "ok", value |-> v]

\* The step after the logger call / after the second print.
AfterTrace(lf) == IF lf # "None" THEN "append" ELSE "ret"
AfterLog(vb, lf) == IF vb THEN "trace" ELSE AfterTrace(lf)
\* The logger call placed under "if verbose" with the print.
AfterCaptureQuiet(vb, lf) == IF vb THEN "sep" ELSE AfterTrace(lf)

\* The logging statements placed after the try statement, where both
\* branches reach them.
AfterReturnLogs(vb, lf) == "log"

\* The step after info.update in the try branch: the logging statements are
\* in the except branch, and the next statement is "return info".
AfterReturn(vb, lf) == "ret"

\* The step after info.update in the except branch: the logger call is not
\* under "if verbose".
AfterCapture(vb, lf) == IF vb THEN "sep" ELSE "log"

\* time.time(), the system's wall clock, at a reading: it has normally
\* advanced since the reading before, and it shows an earlier time when the
\* system clock was set back meanwhile ("it can return a lower value than a
\* previous call if the system clock has been set back between the two
\* calls").
Time(env) == IF env.ticks THEN {t \in 0..(clock + 1) : t <= MaxClock} ELSE {clock}

\* A reading taken before the unit of work has ended.
EpochAtStart(start, now) == start

\* epoch = time.time() in the except branch: the reading taken once the
\* failure is caught.
Epoch(start, now) == now

\* The object the name info of invocation i is bound to.  A single dict shared
\* by every invocation (a module-level record):
InfoCellShared(i) == 0

\* info = {...}: the dict display creates a new dict at every call, so the
\* record of invocation i is an object of its own.
InfoCell(i) == i

\* The invocation whose record the main thread holds in ret: the last direct
\* call that returned (0 when there is none).
RetOf ==
    LET returned == {j \in Ops : op[j].mode = "direct" /\ cf[j].pc = "done"}
    IN  IF returned = {} THEN 0 ELSE CHOOSE j \in returned : \A k \in returned : k <= j

\* Invocation j is inside call_func past the creation of its record, and its
\* record is the object that invocation i's is.
SameRecord(j, i) == DOMAIN cf[j].info # {} /\ InfoCell(j) = InfoCell(i)

\* Invocation i goes on with frame: what it wrote in its record is seen by
\* every holder of that dict object.
Writes(i, frame) ==
    /\ cf' = [j \in Ops |->
               IF j = i THEN frame
               ELSE IF SameRecord(j, i) THEN [cf[j] EXCEPT !.info = frame.info]
               ELSE cf[j]]
    /\ ret' = IF RetOf # 0 /\ InfoCell(RetOf) = InfoCell(i) THEN frame.info ELSE ret

\* call_func from its entry to the call of line 70: the keyword pops, the
\* new record, and func(*args, **kwargs) entered.  The thread is then inside
\* the unit of work for as long as the unit takes.
Begin(i) ==
    /\ cf[i].pc = "call" /\ Runnable(i)
    /\ LET c == CallArgs(i)
           lg == PopValue(c.kwargs, "logger", DefaultLogger)
           kw1 == PopRest(c.kwargs, "logger")
           vb == PopValue(kw1, "verbose", TRUE)
           kw == PopRest(kw1, "verbose")
           info0 == [func_name |-> FuncName(c.func), args |-> ReprArgs(c.args),
                     kwargs |-> ReprKwargs(kw)]
       IN  Writes(i, [cf[i] EXCEPT !.pc = "running", !.logger = lg, !.verbose = vb,
                                    !.logfile = LogfileOf(lg), !.info = info0,
                                    !.ncalls = @ + 1, !.ranIn = cf[i].thread,
                                    !.called = [func |-> c.func, args |-> c.args,
                                                kwargs |-> kw]])
    /\ UNCHANGED <<mpc, cur, op, obj, th, mexc, stdout, loggerCalls, logfile, clock, exited>>

\* The unit of work ends.  When it returns, the try branch updates the record;
\* when it raises, the except branch is entered and reads the exception and
\* the clock (lines 75-77).
UnitEnds(i, env) ==
    /\ cf[i].pc = "running" /\ Runnable(i)
    /\ LET c == cf[i].called
           vb == cf[i].verbose
           lf == cf[i].logfile
       IN  \E o \in Outcomes(c.func, c.args, c.kwargs) :
             IF o.kind = "return"
             THEN /\ Writes(i, [cf[i] EXCEPT !.pc = AfterReturn(vb, lf), !.out = o,
                                             !.info = Update(@, OkFields(o.value))])
                  /\ UNCHANGED clock
             ELSE IF Catches(o.exc.type)
             THEN \E now \in Time(env) :
                  /\ clock' = now
                  /\ cf' = [cf EXCEPT ![i].pc = "caught", ![i].out = o, ![i].exc = o.exc,
                                      ![i].epoch = Epoch(clock, now)]
                  /\ UNCHANGED ret
             ELSE /\ cf' = [cf EXCEPT ![i].pc = "raised", ![i].out = o, ![i].exc = o.exc]
                  /\ UNCHANGED <<ret, clock>>
    /\ UNCHANGED <<mpc, cur, op, obj, th, mexc, stdout, loggerCalls, logfile, exited>>

\* info.update({...}) of the except branch (lines 78-90): the dict display is
\* evaluated, with the name lookup of socket.getfqdn(), and the record
\* updated.
Capture(i) ==
    /\ cf[i].pc = "caught" /\ Runnable(i)
    /\ Writes(i, [cf[i] EXCEPT
                    !.pc = AfterCapture(cf[i].verbose, cf[i].logfile),
                    !.info = Update(@, ErrorFields(cf[i].called.func, cf[i].exc,
                                                   cf[i].epoch))])
    /\ UNCHANGED <<mpc, cur, op, obj, th, mexc, stdout, loggerCalls, logfile, clock, exited>>

\* Invocation j is inside a call of print: it has written the text and not
\* yet the end of line.
Printing(j) == cf[j].pc \in {"sepnl", "tracenl"}

\* Another thread is inside a print while invocation i writes: sys.stdout is
\* the one text stream all threads share, and print takes no lock.
Racing(i) == \E j \in Ops \ {i} : Printing(j) /\ Runnable(j)

\* What a write leaves in place of its text when it races with another
\* thread's on a buffered stream: bytes that no print wrote.
StrayBytes == "<bytes no print wrote>"

\* sys.stdout.write(text) by invocation i: what standard output then holds.
\* The text follows what is there; on a block-buffered stream a write that
\* races with another thread's print changes the stream's pending buffer
\* together with it, and either the text arrives or other bytes arrive in
\* its place.
StdoutWrite(i, text, env) ==
    IF env.buffered /\ Racing(i)
    THEN {Append(stdout, [op |-> i, text |-> text]),
          Append(stdout, [op |-> i, text |-> StrayBytes])}
    ELSE {Append(stdout, [op |-> i, text |-> text])}

\* if verbose: print('=' * 70): print writes the text,
PrintSep(i, env) ==
    /\ cf[i].pc = "sep" /\ Runnable(i)
    /\ stdout' \in StdoutWrite(i, Separator, env)
    /\ cf' = [cf EXCEPT ![i].pc = "sepnl"]
    /\ UNCHANGED <<mpc, cur, op, obj, th, ret, mexc, loggerCalls, logfile, clock, exited>>

\* and then the end of line, in a second write.
PrintSepEnd(i, env) ==
    /\ cf[i].pc = "sepnl" /\ Runnable(i)
    /\ stdout' \in StdoutWrite(i, "\n", env)
    /\ cf' = [cf EXCEPT ![i].pc = "log"]
    /\ UNCHANGED <<mpc, cur, op, obj, th, ret, mexc, loggerCalls, logfile, clock, exited>>

\* _logger.error(...): the message is handed to the logger, which makes a
\* record of it, stamped with a reading of the clock; when the call raises,
\* the exception leaves call_func from inside the except branch.  The
\* handlers write the record afterwards.
LoggerError(i, env) ==
    /\ cf[i].pc = "log" /\ Runnable(i)
    /\ \E now \in Time(env) :
         /\ clock' = now
         /\ loggerCalls' = Append(loggerCalls,
                                  [op |-> i, logger |-> cf[i].logger,
                                   msg |-> ErrorMessage(cf[i].info), created |-> now])
    /\ \E fails \in ErrorCallFails(cf[i].logger) :
         cf' = [cf EXCEPT
                  ![i].pc = IF fails THEN "raised"
                            ELSE IF LogfileOf(cf[i].logger) # "None" THEN "emit"
                            ELSE AfterLog(cf[i].verbose, cf[i].logfile),
                  ![i].exc = IF fails THEN Exc("OSError", <<StrArg("logger")>>) ELSE @]
    /\ UNCHANGED <<mpc, cur, op, obj, th, ret, mexc, stdout, logfile, exited>>

\* The record invocation i handed to the logger.
Handed(i) ==
    LET mine(e) == e.op = i
    IN  SelectSeq(loggerCalls, mine)[1]

\* file_handler writes the record: Handler.handle takes the handler's lock,
\* formats the record and writes the line whole.
Emit(i) ==
    /\ cf[i].pc = "emit" /\ Runnable(i)
    /\ logfile' = Append(logfile, [op |-> i, kind |-> "line",
                                   text |-> FormatRecord(Handed(i).created, Handed(i).msg)])
    /\ cf' = [cf EXCEPT ![i].pc = AfterLog(cf[i].verbose, cf[i].logfile)]
    /\ UNCHANGED <<mpc, cur, op, obj, th, ret, mexc, stdout, loggerCalls, clock, exited>>

\* if verbose: print(info['traceback_string'])
PrintTrace(i, env) ==
    /\ cf[i].pc = "trace" /\ Runnable(i)
    /\ stdout' \in StdoutWrite(i, cf[i].info.traceback_string, env)
    /\ cf' = [cf EXCEPT ![i].pc = "tracenl"]
    /\ UNCHANGED <<mpc, cur, op, obj, th, ret, mexc, loggerCalls, logfile, clock, exited>>

\* The end of line of the second print.
PrintTraceEnd(i, env) ==
    /\ cf[i].pc = "tracenl" /\ Runnable(i)
    /\ stdout' \in StdoutWrite(i, "\n", env)
    /\ cf' = [cf EXCEPT ![i].pc = AfterTrace(cf[i].logfile)]
    /\ UNCHANGED <<mpc, cur, op, obj, th, ret, mexc, loggerCalls, logfile, clock, exited>>

\* open(_logfile, 'w'): the file is truncated and holds the new text alone.
Truncated(content, entry) == <<entry>>

\* open(_logfile, 'a') and fp.write: the text goes after what the file holds.
Written(content, entry) == Append(content, entry)

\* if _logfile: with open(_logfile, 'a') as fp: fp.write(...).  open raises
\* when the file cannot be written.
AppendFile(i) ==
    /\ cf[i].pc = "append" /\ Runnable(i)
    /\ \E writable \in BOOLEAN :
         IF writable
         THEN /\ logfile' = Written(logfile, [op |-> i, kind |-> "trace",
                                              text |-> cf[i].info.traceback_string])
              /\ cf' = [cf EXCEPT ![i].pc = "ret"]
         ELSE /\ cf' = [cf EXCEPT
                          ![i].pc = "raised",
                          ![i].exc = ExcAt("FileNotFoundError",
                                           <<IntArg(2), StrArg("No such file or directory")>>,
                                           cf[i].logfile, "")]
              /\ UNCHANGED logfile
    /\ UNCHANGED <<mpc, cur, op, obj, th, ret, mexc, stdout, loggerCalls, clock, exited>>

\* return info: to the caller of a direct call; SimpleBackgroundTask.run drops
\* it, and returns None to its caller or ends the thread, which then refers
\* to the instance no more.
Return(i) ==
    /\ cf[i].pc = "ret" /\ Runnable(i)
    /\ cf' = [cf EXCEPT ![i] = Ended(cf[i], "done")]
    /\ op' = [op EXCEPT ![i] = Forget(op[i])]
    /\ IF cf[i].thread = MainThread
       THEN /\ ret' = IF op[i].mode = "direct" THEN cf[i].info ELSE ret
            /\ mpc' = IF op[i].mode = "launch" THEN mpc ELSE "idle"
            /\ UNCHANGED <<th, obj>>
       ELSE /\ th' = [th EXCEPT ![i].state = "finished"]
            /\ obj' = Collect(obj, cf', Holds)
            /\ UNCHANGED <<ret, mpc>>
    /\ UNCHANGED <<cur, mexc, stdout, loggerCalls, logfile, clock, exited>>

\* An exception leaves call_func: it reaches the caller in the main thread,
\* and ends the thread (threading's excepthook) in a spawned one.
Propagate(i) ==
    /\ cf[i].pc = "raised" /\ Runnable(i)
    /\ cf' = [cf EXCEPT ![i] = Ended(cf[i], "dead")]
    /\ op' = [op EXCEPT ![i] = Forget(op[i])]
    /\ IF cf[i].thread = MainThread
       THEN /\ mexc' = cf[i].exc /\ mpc' = "crashed"
            /\ obj' = Collect(obj, cf', {})
            /\ UNCHANGED th
       ELSE /\ th' = [th EXCEPT ![i].state = "died"]
            /\ obj' = Collect(obj, cf', Holds)
            /\ UNCHANGED <<mexc, mpc>>
    /\ UNCHANGED <<cur, ret, stdout, loggerCalls, logfile, clock, exited>>

CallFuncStep(i, env) ==
    \/ Begin(i)
    \/ UnitEnds(i, env)
    \/ Capture(i)
    \/ PrintSep(i, env)
    \/ PrintSepEnd(i, env)
    \/ LoggerError(i, env)
    \/ Emit(i)
    \/ PrintTrace(i, env)
    \/ PrintTraceEnd(i, env)
    \/ AppendFile(i)
    \/ Return(i)
    \/ Propagate(i)

\* A step of the program whose caller makes its calls with one of shapes, in
\* the environment env.
Step(shapes, env) ==
    \/ \E i \in Ops, c \in shapes : StartDirect(i, c.func, c.args, c.kwargs)
    \/ \E i \in Ops, c \in shapes : Construct(i, c.func, c.args, c.kwargs)
    \/ CtorReturn
    \/ \E i, j \in Ops : CallRun(i, j)
    \/ MainFinish
    \/ ProcessExit
    \/ \E i \in Ops : Begin(i)
    \/ \E i \in Ops : UnitEnds(i, env)
    \/ \E i \in Ops : Capture(i)
    \/ \E i \in Ops : PrintSep(i, env)
    \/ \E i \in Ops : PrintSepEnd(i, env)
    \/ \E i \in Ops : LoggerError(i, env)
    \/ \E i \in Ops : Emit(i)
    \/ \E i \in Ops : PrintTrace(i, env)
    \/ \E i \in Ops : PrintTraceEnd(i, env)
    \/ \E i \in Ops : AppendFile(i)
    \/ \E i \in Ops : Return(i)
    \/ \E i \in Ops : Propagate(i)

\* The environment of a run: whether the clock moves while the program runs
\* (or the run is over within one reading of it), and whether sys.stdout is
\* block-buffered (a pipe or a file) or unbuffered (python -u).
Env(ticks, buffered) == [ticks |-> ticks, buffered |-> buffered]

\* The program on an unbuffered standard output, the clock moving.
Next == Step(CallShapes, Env(TRUE, FALSE))

Spec == Init /\ [][Next]_vars

\* The program on a block-buffered standard output, within one reading of
\* the clock.
BufferedSpec == Init /\ [][Step(CallShapes, Env(FALSE, TRUE))]_vars

\* The calls with a unit of work that fails: one that raises, with the module
\* logger and with a logger of the caller's, and a command that exits with a
\* status other than 0 under run_or_die.
FailingShapes ==
    { Shape(Fn("boom"), << >>, Kw({})),
      Shape(Fn("boom"), <<"a", "b">>, Kw({"logger"})),
      Shape(Fn("run_or_die"), <<"exit 3">>, Kw({"verbose"})) }

\* The program with failing units of work, on an unbuffered standard output
\* and within one reading of the clock, under fair scheduling.  A thread
\* that can run is scheduled, and a unit of work ends: every call_func in
\* progress goes on for as long as its thread is alive.
FairSpec ==
    /\ Init /\ [][Step(FailingShapes, Env(FALSE, FALSE))]_vars
    /\ \A i \in Ops : WF_vars(CallFuncStep(i, Env(FALSE, FALSE)))

\* ------------------------------------------------------------ properties
ErrorKeys == {"traceback_string", "error_type", "error_value", "func_doc",
              "func_module", "fqdn", "time_epoch", "time_string"}

HasValue(info) == "value" \in DOMAIN info
IsErrorRecord(info) ==
    /\ ErrorKeys \subseteq DOMAIN info
    /\ ~HasValue(info)
    /\ info.status = "error"
IsOkRecord(info) ==
    /\ HasValue(info)
    /\ ErrorKeys \cap DOMAIN info = {}
    /\ info.status = "ok"

\* The entries of a log that operation i wrote.
Of(log, i) == LET mine(e) == e.op = i IN SelectSeq(log, mine)

\* C1: whenever the unit of work of a call_func invocation raised, call_func
\* returns normally with a complete error record that has no 'value'; no
\* exception leaves call_func.
C1_FailingCallReturnsErrorRecord ==
    \A i \in Ops :
        cf[i].out.kind = "raise" =>
            /\ cf[i].pc \notin {"raised", "dead"}
            /\ cf[i].pc = "ret" => IsErrorRecord(cf[i].info)

\* C2: a record call_func returns after the unit of work returned has status
\* 'ok', the unit's return value as 'value' and no error field; every
\* returned record, in the main thread or a spawned one, is either an ok
\* record with a value or an error record with every error field, never both
\* and never neither.
C2_RecordIsOkOrError ==
    /\ \A i \in Ops :
         cf[i].pc = "ret" =>
            /\ IsOkRecord(cf[i].info) # IsErrorRecord(cf[i].info)
            /\ cf[i].out.kind = "return" =>
                 /\ IsOkRecord(cf[i].info)
                 /\ cf[i].info.value = cf[i].out.value
    /\ DOMAIN ret # {} => (IsOkRecord(ret) # IsErrorRecord(ret))

\* A spawned thread is about to return an ok record while the main thread
\* holds the error record of an earlier direct call.
C2_Witness ==
    /\ DOMAIN ret # {} /\ IsErrorRecord(ret)
    /\ \E i \in Ops :
         /\ cf[i].pc = "ret" /\ cf[i].thread # MainThread
         /\ cf[i].out.kind = "return" /\ IsOkRecord(cf[i].info)

\* C3: the main thread never gets an exception out of a SimpleBackgroundTask
\* construction: whatever the spawned thread does, an exception reaches the
\* main thread only from a call_func the main thread made itself, directly or
\* by calling run().
C3_ConstructorNeverRaises ==
    /\ mpc = "crashed" => op[cur].mode \in {"direct", "rerun"}
    /\ mexc # NoExc => op[cur].mode \in {"direct", "rerun"}
    /\ \A i \in Ops :
         op[i].mode = "launch" /\ cf[i].pc \in {"raised", "dead"} =>
            th[i].state \in {"running", "died", "killed"} /\ (cur = i => mexc = NoExc)

\* The constructor has returned, the unit of work has raised in the spawned
\* thread, and the main thread carries on with no exception.
C3_Witness ==
    \E i \in Ops :
        /\ op[i].mode = "launch" /\ cur = i /\ mpc = "idle" /\ mexc = NoExc
        /\ cf[i].out.kind = "raise" /\ cf[i].pc \in {"done", "dead"}

\* C5: the constructor can return as soon as the thread is started, whatever
\* the state of the task; every started thread is a daemon, and once the main
\* program has ended the process can exit whatever the tasks are doing.
C5_ConstructorDoesNotWait ==
    /\ mpc = "ctor" => ENABLED CtorReturn
    /\ \A i \in Ops : th[i].state # "none" => th[i].daemon
    /\ (mpc \in {"done", "crashed"} /\ ~exited) => ENABLED ProcessExit

\* The constructor has returned and the unit of work has not finished.
C5_Witness ==
    \E i \in Ops :
        /\ op[i].mode = "launch" /\ cur = i /\ mpc = "idle"
        /\ th[i].state = "running" /\ cf[i].pc = "call"

\* C8: a SimpleBackgroundTask built from a string stores partial(run, string)
\* with empty arguments, whatever was passed with the string, and its thread
\* calls that with no argument: the outcome is that of run(string).
C8_StringDropsArguments ==
    \A i \in Ops :
        (op[i].mode = "launch" /\ cf[i].pc \notin {"done", "dead"} /\ ~callable(op[i].func)) =>
            /\ (cf[i].pc = "call" \/ i \in Holds) =>
                 /\ obj[i]._func = Partial("run", op[i].func.bound)
                 /\ obj[i]._args = << >>
                 /\ DOMAIN obj[i]._kwargs = {}
            /\ cf[i].ncalls >= 1 =>
                 /\ cf[i].called.func = Partial("run", op[i].func.bound)
                 /\ cf[i].called.args = << >>
                 /\ DOMAIN cf[i].called.kwargs = {}
                 /\ cf[i].out.kind # "none" => cf[i].out \in run(op[i].func.bound)

\* A string passed with a positional and keyword arguments has been run.
C8_Witness ==
    \E i \in Ops :
        /\ op[i].mode = "launch" /\ ~callable(op[i].func) /\ op[i].func.bound = "echo hello"
        /\ op[i].args # << >> /\ DOMAIN op[i].kwargs # {}
        /\ cf[i].pc = "ret" /\ cf[i].info.status = "ok"

\* The unit of work of invocation i has ended.
PastUnit(i) == cf[i].pc \notin {"none", "call", "running"}

\* C10, as claimed: call_func invokes the unit of work once, in the thread
\* that called call_func, and the unit has ended when call_func goes on; an
\* instance starts one thread, and its unit of work runs in that thread and
\* not in the main thread.
C10_OneInvocationInOwnThread ==
    \A i \in Ops :
        /\ cf[i].ncalls <= 1
        /\ PastUnit(i) => cf[i].ncalls = 1 /\ cf[i].out.kind \in {"return", "raise"}
        /\ cf[i].pc = "running" => cf[i].ncalls = 1 /\ cf[i].out.kind = "none"
        /\ cf[i].ncalls = 1 =>
             /\ cf[i].ranIn = cf[i].thread
             /\ op[i].mode = "direct" => cf[i].ranIn = MainThread
             /\ op[i].mode \in {"launch", "rerun"} =>
                  cf[i].ranIn = op[i].of /\ cf[i].ranIn # MainThread
        /\ th[i].starts = IF op[i].mode = "launch" THEN 1 ELSE 0

\* C10, amended: call_func invokes the unit of work once, in the thread that
\* called call_func, and the unit has ended when call_func goes on; a
\* construction starts one thread, and the invocation it starts runs the unit
\* in that thread and not in the main thread; a call of the instance's run()
\* by the main thread starts no thread and runs the unit in the main thread.
C10_OneInvocationPerCall ==
    \A i \in Ops :
        /\ cf[i].ncalls <= 1
        /\ PastUnit(i) => cf[i].ncalls = 1 /\ cf[i].out.kind \in {"return", "raise"}
        /\ cf[i].pc = "running" => cf[i].ncalls = 1 /\ cf[i].out.kind = "none"
        /\ cf[i].ncalls = 1 =>
             /\ cf[i].ranIn = cf[i].thread
             /\ op[i].mode \in {"direct", "rerun"} => cf[i].ranIn = MainThread
             /\ op[i].mode = "launch" => cf[i].ranIn = i /\ cf[i].ranIn # MainThread
        /\ th[i].starts = IF op[i].mode = "launch" THEN 1 ELSE 0
        /\ op[i].mode = "rerun" => th[op[i].of].starts = 1

\* A launched task has run its unit in its own thread, and the main thread
\* has then called run() on the instance and run the unit again itself.
C10_Witness ==
    /\ op[1].mode = "launch" /\ cf[1].pc = "done" /\ cf[1].ncalls = 1 /\ cf[1].ranIn = 1
    /\ op[2].mode = "rerun" /\ op[2].of = 1
    /\ cf[2].pc = "ret" /\ cf[2].ncalls = 1 /\ cf[2].ranIn = MainThread
    /\ th[1].starts = 1 /\ th[2].starts = 0

\* Operation i is a launched task whose unit of work raises: it cannot do
\* otherwise, or it has.
LaunchedFailing(i) ==
    /\ op[i].mode = "launch"
    /\ \/ /\ cf[i].pc = "call"
          /\ \A o \in Outcomes(obj[i]._func, obj[i]._args,
                               PopRest(PopRest(obj[i]._kwargs, "logger"), "verbose")) :
                o.kind = "raise"
       \/ /\ cf[i].pc = "running"
          /\ \A o \in Outcomes(cf[i].called.func, cf[i].called.args,
                               cf[i].called.kwargs) : o.kind = "raise"
       \/ cf[i].out.kind = "raise"

Logged(i) == Len(Of(loggerCalls, i)) >= 1

\* C4, as claimed: once a task is launched with a unit of work that raises,
\* its error line eventually reaches the logger.
C4_ErrorLineEventuallyLogged ==
    \A i \in Ops : LaunchedFailing(i) ~> Logged(i)

\* C4, amended: once a task is launched with a unit of work that raises, its
\* error line eventually reaches the logger unless the process exits first.
C4_LoggedUnlessProcessExits ==
    \A i \in Ops : LaunchedFailing(i) ~> (Logged(i) \/ exited)

\* A launched task's unit of work has raised and its line is with the logger
\* while the process is still running.
C4_Witness ==
    \E i \in Ops :
        /\ op[i].mode = "launch" /\ cf[i].out.kind = "raise"
        /\ Logged(i) /\ ~exited

\* The unit of work of invocation i has raised and call_func is past its
\* logger call.
PastLog(i) == cf[i].out.kind = "raise" /\ cf[i].pc \notin {"caught", "sep", "sepnl", "log"}

Kind(log, k) == LET ofKind(e) == e.kind = k IN SelectSeq(log, ofKind)

\* C6: under every interleaving the logger is handed one error line for each
\* failed task and none else, so N failed tasks leave N lines; a line carries
\* the name and arguments of its own task, and the log file holds each task's
\* line and trace text at most once, whole.
C6_OneErrorLinePerFailedTask ==
    /\ \A i \in Ops :
         LET mine == Of(loggerCalls, i)
             inFile == Of(logfile, i)
         IN  /\ Len(mine) = IF PastLog(i) THEN 1 ELSE 0
             /\ (Len(mine) = 1 /\ cf[i].pc \notin {"done", "dead"}) =>
                  /\ mine[1].msg = ErrorMessage(cf[i].info)
                  /\ mine[1].logger = cf[i].logger
             /\ Len(Kind(inFile, "line")) <= Len(mine)
             /\ Len(Kind(inFile, "trace")) <= Len(Kind(inFile, "line"))
             /\ \A n \in 1..Len(inFile) :
                  /\ inFile[n].kind = "line" =>
                       inFile[n].text = FormatRecord(mine[1].created, mine[1].msg)
                  /\ (inFile[n].kind = "trace" /\ cf[i].pc \notin {"done", "dead"}) =>
                       inFile[n].text = cf[i].info.traceback_string
    /\ Len(loggerCalls) = Cardinality({i \in Ops : PastLog(i)})
    /\ (\A i \in Ops : op[i].mode = "launch" /\ cf[i].out.kind = "raise"
                       /\ cf[i].pc \in {"done", "dead"}) =>
          Len(loggerCalls) = MaxOps

\* Every operation was a launched task that failed, all have ended, and the
\* first task's line was handed to the logger before the second's and written
\* to the file after it, between the second's line and trace text.
C6_Witness ==
    /\ \A i \in Ops : op[i].mode = "launch" /\ cf[i].out.kind = "raise"
                      /\ cf[i].pc \in {"done", "dead"}
    /\ Len(loggerCalls) = MaxOps
    /\ loggerCalls[1].op = 1
    /\ Len(logfile) >= 3
    /\ logfile[1].op = 2 /\ logfile[2].op = 1 /\ logfile[3].op = 2

\* C7: a failure of the logger call or of the append to the log file does not
\* leave call_func: no invocation ends with the sink's exception, in the main
\* thread or in a spawned one.
C7_SinkFailureContained ==
    /\ mexc.type \notin OSErrors
    /\ \A i \in Ops : cf[i].pc = "raised" => cf[i].exc.type \notin OSErrors

Texts(log) == [n \in 1..Len(log) |-> log[n].text]

\* C9: when call_func is left after its unit of work raised, the logger has
\* been handed one line with the record's name and argument renderings;
\* standard output holds nothing of the invocation with verbose off, and the
\* separator followed by the trace text with verbose on.
C9_LineAlwaysOutputOnlyIfVerbose ==
    \A i \in Ops :
        (cf[i].out.kind = "raise" /\ cf[i].pc \in {"ret", "raised"}) =>
            /\ Len(Of(loggerCalls, i)) = 1
            /\ Of(loggerCalls, i)[1].msg = ErrorMessage(cf[i].info)
            /\ Texts(Of(stdout, i)) =
                 IF cf[i].verbose
                 THEN <<Separator, "\n", cf[i].info.traceback_string, "\n">>
                 ELSE << >>

\* The keyword arguments call_func keeps for itself (its docstring: "will be
\* popped and used internally").
Controls == {"logger", "verbose"}
Without(kw, keys) == [x \in (DOMAIN kw) \ keys |-> kw[x]]

\* A launched task with an invocable whose unit of work has been invoked and
\* whose call_func has not yet been left.
LaunchedInvoked(i) ==
    /\ op[i].mode = "launch" /\ callable(op[i].func)
    /\ cf[i].pc \notin {"none", "call", "done", "dead"}

\* C11, as claimed: an instance built from an invocable stores the invocable
\* and its arguments unchanged, and its thread invokes the invocable with
\* exactly the positional and exactly the keyword arguments the constructor
\* was given, whatever the keyword names.
C11_ArgumentsPassedUnchanged ==
    \A i \in Ops :
        LaunchedInvoked(i) =>
            /\ i \in Holds =>
                 obj[i] = [_func |-> op[i].func, _args |-> op[i].args, _kwargs |-> op[i].kwargs]
            /\ cf[i].called = [func |-> op[i].func, args |-> op[i].args,
                               kwargs |-> op[i].kwargs]

\* C11, amended: the instance stores the invocable and its arguments
\* unchanged, and its thread invokes the invocable with exactly the positional
\* arguments and exactly the keyword arguments the constructor was given other
\* than 'logger' and 'verbose', which call_func takes as its own controls.
C11_ArgumentsPassedButControls ==
    \A i \in Ops :
        LaunchedInvoked(i) =>
            /\ i \in Holds =>
                 obj[i] = [_func |-> op[i].func, _args |-> op[i].args, _kwargs |-> op[i].kwargs]
            /\ cf[i].called = [func |-> op[i].func, args |-> op[i].args,
                               kwargs |-> Without(op[i].kwargs, Controls)]
            /\ cf[i].logger = PopValue(op[i].kwargs, "logger", DefaultLogger)
            /\ cf[i].verbose = PopValue(op[i].kwargs, "verbose", TRUE)

\* A task launched with a positional argument and the keywords k, verbose and
\* logger has invoked its unit of work, which got k alone.
C11_Witness ==
    \E i \in Ops :
        /\ LaunchedInvoked(i)
        /\ op[i].args = <<"a">> /\ DOMAIN op[i].kwargs = {"k", "verbose", "logger"}
        /\ cf[i].called.args = <<"a">> /\ DOMAIN cf[i].called.kwargs = {"k"}
        /\ cf[i].out.kind = "return"

\* The record of invocation i as its own invocation determines it: the name
\* and renderings of what it was called with, and the fields of its outcome.
OwnRecord(i) ==
    LET c == cf[i].called
        o == cf[i].out
        names == [func_name |-> FuncName(c.func), args |-> ReprArgs(c.args),
                  kwargs |-> ReprKwargs(c.kwargs)]
    IN  IF o.kind = "return" THEN Update(names, OkFields(o.value))
        ELSE Update(names, ErrorFields(c.func, o.exc, cf[i].info.time_epoch))

\* Invocation i has captured the outcome of its unit of work in its record.
Captured(i) ==
    cf[i].pc \in {"sep", "sepnl", "log", "emit", "trace", "tracenl", "append", "ret"}

\* The record of invocation i when it was created: the name and renderings.
NewRecord(i) ==
    LET c == cf[i].called
    IN  [func_name |-> FuncName(c.func), args |-> ReprArgs(c.args),
         kwargs |-> ReprKwargs(c.kwargs)]

\* C12: the record an invocation creates holds its own name and argument
\* renderings; when the outcome is captured it holds, with these, the fields
\* of its own outcome and nothing else; from then on it is not changed by the
\* logging steps or by another invocation; and the record the main thread was
\* returned changes only when the main thread is returned the record of its
\* next direct call.
C12_RecordsAreFreshAndStable ==
    [][ /\ \A i \in Ops :
             /\ (cf[i].pc = "call" /\ cf'[i].pc = "running") =>
                  (cf[i].info = NewRecord(i))'
             /\ (cf[i].pc = "running" /\ cf'[i].pc = "caught") =>
                  cf'[i].info = cf[i].info
             /\ (~Captured(i) /\ Captured(i)') => (cf[i].info = OwnRecord(i))'
             /\ (cf[i].pc \in {"running", "caught"} /\ cf'[i].pc = cf[i].pc) =>
                  cf'[i].info = cf[i].info
             /\ (Captured(i) /\ cf'[i].pc \notin {"done", "dead"}) =>
                  cf'[i].info = cf[i].info
        /\ ret' # ret => /\ op[cur].mode = "direct" /\ cf[cur].pc = "ret"
                          /\ cf'[cur].pc = "done"
                          /\ ret' = cf[cur].info ]_vars

\* The main thread holds the error record of its first call while a launched
\* task, after it, has filled the ok record of another unit of work.
C12_Witness ==
    /\ DOMAIN ret # {} /\ ret.status = "error" /\ ret.func_name = "boom"
    /\ RetOf = 1
    /\ cf[2].pc = "ret" /\ cf[2].thread # MainThread
    /\ cf[2].info.status = "ok" /\ cf[2].info.func_name = "echo"

\* Invocation i, a direct call in the main thread, catches the failure of its
\* unit of work in this step.
CatchesNow(i) == cf[i].pc = "running" /\ cf'[i].pc = "caught"

\* Invocation i fills the record of the failure it caught in this step: the
\* record carries the reading taken at the catch.
StampedAtCatch(i) ==
    (cf[i].pc = "caught" /\ Captured(i)') =>
        /\ cf'[i].info.time_epoch = cf[i].epoch
        /\ cf'[i].info.time_string = TimeString(cf[i].epoch)

\* The record the main thread holds is that of an earlier failing call.
HoldsErrorRecord == DOMAIN ret # {} /\ ret.status = "error"

\* C13, as claimed: when a direct call in the main thread fails after an
\* earlier direct call failed, its time_epoch is not below the earlier
\* record's; and a time_epoch is the clock's value once the unit of work has
\* raised.
C13_EpochNonDecreasing ==
    [][ \A i \in Ops :
          /\ StampedAtCatch(i)
          /\ CatchesNow(i) =>
               /\ cf'[i].epoch = clock'
               /\ (cf[i].thread = MainThread /\ HoldsErrorRecord) =>
                    ret.time_epoch <= cf'[i].epoch ]_vars

\* C13, amended: a time_epoch is the wall clock's value once the unit of work
\* has raised, with time_string rendering the same reading; across failing
\* direct calls of the main thread it is non-decreasing whenever the wall
\* clock has not been set back since the earlier failure.
C13_EpochIsClockAtFailure ==
    [][ \A i \in Ops :
          /\ StampedAtCatch(i)
          /\ CatchesNow(i) =>
               /\ cf'[i].epoch = clock'
               /\ (cf[i].thread = MainThread /\ HoldsErrorRecord
                    /\ ret.time_epoch <= clock /\ clock <= clock') =>
                    ret.time_epoch <= cf'[i].epoch ]_vars

\* The main thread holds the record of a failed first call, stamped 0, and its
\* second call has failed and is stamped 1: the clock went on meanwhile.
C13_Witness ==
    /\ HoldsErrorRecord /\ RetOf = 1 /\ ret.time_epoch = 0
    /\ op[2].mode = "direct" /\ cf[2].pc = "ret" /\ cf[2].out.kind = "raise"
    /\ cf[2].info.time_epoch = 1

\* The trace texts invocation i has put in the log file.
Traces(i) == Kind(Of(logfile, i), "trace")

\* C14, as claimed: when call_func is left after its unit of work raised, the
\* log file holds the trace text of the invocation once if the logger has a
\* file, and nothing of the invocation if it has none.
C14_TraceAppendedOnEveryFailure ==
    \A i \in Ops :
        (cf[i].out.kind = "raise" /\ cf[i].pc \in {"ret", "raised"}) =>
            IF cf[i].logfile # "None"
            THEN /\ Len(Traces(i)) = 1
                 /\ Traces(i)[1].text = cf[i].info.traceback_string
            ELSE Of(logfile, i) = << >>

\* C14, amended: no invocation appends its trace text more than once; when
\* call_func returns after its unit of work raised, the file of the logger
\* holds the trace text of the invocation exactly once, put there after the
\* error line was handed to the logger, and nothing of the invocation when the
\* logger has no file; and every step keeps what the file held before.
C14_TraceAppendedOnceBeforeReturn ==
    [][ /\ \A i \in Ops :
             /\ Len(Traces(i))' <= 1
             /\ Len(Traces(i))' > Len(Traces(i)) =>
                  /\ cf[i].pc = "append" /\ cf[i].logfile = LOGFILE
                  /\ Len(Of(loggerCalls, i)) = 1
                  /\ Len(Kind(Of(logfile, i), "line")) = 1
             /\ (cf[i].out.kind = "raise" /\ cf[i].pc = "ret")' =>
                  (IF cf[i].logfile # "None"
                   THEN /\ Len(Traces(i)) = 1
                        /\ Traces(i)[1].text = cf[i].info.traceback_string
                   ELSE Of(logfile, i) = << >>)'
        /\ Len(logfile') >= Len(logfile)
        /\ SubSeq(logfile', 1, Len(logfile)) = logfile ]_vars

\* A second failing invocation on the module logger is about to return after
\* a first one has: the file holds the line and the trace text of each, the
\* second's after the first's.
C14_Witness ==
    /\ cf[2].pc = "ret" /\ cf[2].out.kind = "raise" /\ cf[2].logfile = LOGFILE
    /\ cf[1].out.kind = "raise" /\ cf[1].pc = "done"
    /\ Len(logfile) = 4
    /\ logfile[2].op = 1 /\ logfile[2].kind = "trace"
    /\ logfile[4].op = 2 /\ logfile[4].kind = "trace"

\* C15: an invocation whose unit of work returned has handed nothing to the
\* logger, printed nothing and put nothing in the log file, with verbose on
\* or off, at any point up to and after its return.
C15_NoSideEffectOnSuccess ==
    \A i \in Ops :
        cf[i].out.kind = "return" =>
            /\ cf[i].pc \in {"ret", "done"}
            /\ Of(loggerCalls, i) = << >>
            /\ Of(stdout, i) = << >>
            /\ Of(logfile, i) = << >>

\* A unit of work has returned with verbose on, after a failed invocation
\* left its line, separator and trace texts: these are all there is.
C15_Witness ==
    /\ cf[2].pc = "ret" /\ cf[2].out.kind = "return" /\ cf[2].verbose
    /\ cf[1].out.kind = "raise" /\ cf[1].pc = "done"
    /\ Len(loggerCalls) = 1 /\ Len(stdout) = 4 /\ Len(logfile) = 2

\* The unit of work invocation i has invoked is run with a command: run
\* itself passed with the command, or the partial a launched string became.
RanCommand(i) ==
    /\ cf[i].pc \notin {"none", "call", "running", "done", "dead"}
    /\ \/ cf[i].called = [func |-> Fn("run"), args |-> <<"exit 3">>, kwargs |-> EmptyDict]
       \/ /\ op[i].mode = "launch" /\ ~callable(op[i].func)
          /\ cf[i].called.func = Partial("run", op[i].func.bound)
       \/ /\ op[i].mode = "rerun"
          /\ cf[i].called = [func |-> Partial("run", "echo hello"), args |-> << >>,
                             kwargs |-> EmptyDict]

\* C16: when the unit of work is run with a command, whatever exit code the
\* command ends with, run returns it: call_func goes straight to its return
\* with an ok record whose value is the exit code, and no error line,
\* separator or trace text of the invocation exists.
C16_NonZeroExitIsOk ==
    \A i \in Ops :
        RanCommand(i) =>
            /\ cf[i].pc = "ret"
            /\ cf[i].out.kind = "return"
            /\ cf[i].out.value \in {<<"int", rc>> : rc \in ExitCodes}
            /\ IsOkRecord(cf[i].info)
            /\ cf[i].info.value = cf[i].out.value
            /\ Of(loggerCalls, i) = << >>
            /\ Of(stdout, i) = << >>
            /\ Of(logfile, i) = << >>

\* A launched string and run called directly have both ended with exit
\* code 3: the main thread holds the ok record of the direct call, and the
\* thread is about to return the other.
C16_Witness ==
    /\ RetOf = 1 /\ DOMAIN ret # {} /\ ret.func_name = "run"
    /\ ret.status = "ok" /\ ret.value = <<"int", 3>>
    /\ op[2].mode = "launch" /\ RanCommand(2)
    /\ cf[2].info.func_name = "<class 'functools.partial'>"
    /\ cf[2].info.status = "ok" /\ cf[2].info.value = <<"int", 3>>

====
